---- MODULE Spec2Model ----
(***************************************************************************)
(* Frame pipeline of screen_streamer (src/main.rs): one capture thread     *)
(* polls the display, encodes each frame as JPEG and publishes it on a     *)
(* tokio broadcast channel; every GET /stream connection subscribes to     *)
(* that channel and writes the frames it receives as multipart records.    *)
(*                                                                         *)
(* The broadcast channel is modelled by what tokio::sync::broadcast does:  *)
(* a ring of slots stamped with the position of the value they hold, one   *)
(* tail (next position, receiver count, closed flag) and one read cursor   *)
(* per receiver.  send, subscribe, recv and the drops of a Sender or a     *)
(* Receiver are each one atomic step (they run under the tail lock).       *)
(* Positions are u64 in the code; the model's positions stay far below     *)
(* 2^64, and the wrapped initial stamp (i - len) is kept as a negative     *)
(* integer.                                                                *)
(***************************************************************************)
EXTENDS Integers, Sequences, FiniteSets, TLC

\* ------------------------------------------------------------- bounds
\* How many frames beyond one full ring the channel accepts before the
\* capture device stops delivering frames.
MaxOverrun == 2
\* Display size reported by the capturer (w, h).
Width == 1
Height == 1
\* The connections a viewer may open; a closed one may be opened again.
Conns == {"a", "b"}
\* Raw capture buffers the pixel reordering is applied to: every byte
\* sequence of at most MaxFrameLen bytes with byte values 0 .. MaxByte, and
\* how many times in a row the reordering is applied to one buffer.
MaxFrameLen == 8
MaxByte == 1
MaxPasses == 2

\* -------------------------------------------------- program constants
\* broadcast::channel::<Vec<u8>>(16)
Capacity == 16
\* frame.len() != (w * h * 4)
BytesPerPixel == 4
\* frame.chunks_exact(4)
ChunkSize == 4

VARIABLES
    tail,       \* the channel's Tail: [pos, rx_cnt, closed]
    buffer,     \* the channel's ring: [0..len-1 -> [pos, val]], val an Option
    senders,    \* who holds a live Sender handle (frame_tx and its clones)
    capture,    \* the capture thread: "running" (in its loop) or "exited"
    rx,         \* per connection: [pc, next, cur], the stream and its Receiver
    lastIter,   \* history: how the latest iteration that got a frame from the
                \*   device (or the fatal one) ended
    published,  \* history: the frames send accepted, in publish order
    got,        \* history: per connection, what its latest recv returned
    lastId,     \* history: per connection, the latest frame delivered to it
    floor,      \* history: per connection, the newest publish index that is
                \*   older than the subscription or already delivered to it
    droppedAt,  \* history: per connection slot, where the stream stood when
                \*   the previous connection in it was dropped
    out,        \* history: per connection, the chunks of its latest record
    accounted,  \* history: per connection, the number of frames published
                \*   before it subscribed, plus the frames delivered to it,
                \*   plus the n of every Lagged(n) it was given
    lastCapture,\* history: of the latest frame the device delivered, whether
                \*   its length was w*h*4 and whether encode_image returned Ok
    frame,      \* pixel reordering: the raw buffer it is given
    rgba_frame, \* pixel reordering: the buffer it built last
    passes      \* pixel reordering: how many times it ran on this buffer

pixelVars == <<frame, rgba_frame, passes>>
pipelineVars == <<tail, buffer, senders, capture, rx, lastIter, published, got,
                  lastId, floor, droppedAt, out, accounted, lastCapture>>
vars == <<pipelineVars, pixelVars>>

\* ------------------------------------------------------------- values
\* Option<T>: None is the empty sequence, Some(v) the one-element sequence.
None == <<>>
Some(v) == <<v>>

\* The JPEG handed to the n-th send the channel accepts: every captured image
\* is a different one (id), and its encoded length depends on the image.
JpegSizes == <<100, 200, 150>>
JpegData(n) == [id |-> n, len |-> JpegSizes[((n - 1) % Len(JpegSizes)) + 1]]

\* ------------------------------------------------ the broadcast channel
RECURSIVE NextPowerOfTwo(_)
\* broadcast::channel rounds the requested capacity up to a power of two.
NextPowerOfTwo(n) == IF n <= 1 THEN 1 ELSE 2 * NextPowerOfTwo((n + 1) \div 2)

\* The ring a new channel starts with: slot i is stamped i - len, so that
\* "stamp + len = cursor" reads as "nothing written here for this cursor yet".
NewBuffer(capacity) ==
    LET len == NextPowerOfTwo(capacity)
    IN  [i \in 0 .. (len - 1) |-> [pos |-> i - len, val |-> None]]

\* buffer.len(), and the slot a position lives in (pos & mask).
BufLen == Cardinality(DOMAIN buffer)
SlotIdx(pos) == pos % BufLen

\* let (frame_tx, _) = broadcast::channel(..): the first Receiver is dropped
\* on the spot, so the channel starts with no receiver.
NewTail == [pos |-> 0, rx_cnt |-> 0, closed |-> FALSE]

\* Sender::send under the tail lock.  With no receiver the value comes back
\* as Err(SendError) and nothing is written; otherwise the value overwrites
\* the slot of tail.pos, whoever has or has not read it, and send returns
\* Ok(rx_cnt).  It never waits.
SendAccepts == tail.rx_cnt > 0
\* (mutant of SendSlot: the value lands one slot further on)
SendSlotOffByOne == SlotIdx(tail.pos + 1)
SendSlot == SlotIdx(tail.pos)
SendResult == IF SendAccepts THEN [ok |-> TRUE, n |-> tail.rx_cnt]
                             ELSE [ok |-> FALSE, n |-> 0]
TailAfterSend == IF SendAccepts THEN [tail EXCEPT !.pos = @ + 1] ELSE tail
\* (mutant of BufferAfterSend: the value is queued behind the others, as in
\* an unbounded queue, and no slot is overwritten)
BufferAfterSendGrows(value) ==
    IF SendAccepts
    THEN [i \in 0 .. BufLen |->
             IF i = BufLen THEN [pos |-> tail.pos, val |-> Some(value)]
                           ELSE buffer[i]]
    ELSE buffer
BufferAfterSend(value) ==
    IF SendAccepts
    THEN [buffer EXCEPT ![SendSlot] = [pos |-> tail.pos, val |-> Some(value)]]
    ELSE buffer

\* (mutant of SubscribeNext: the new Receiver starts at the oldest frame the
\* ring still holds)
SubscribeAtOldest == IF tail.pos > BufLen THEN tail.pos - BufLen ELSE 0
\* Sender::subscribe: the new Receiver's cursor starts at the tail.
SubscribeNext == tail.pos

\* (mutant of AdvanceCursor: the cursor stays on the value it returned)
CursorStays(next) == next
\* self.next = self.next.wrapping_add(1), after a value is taken.
AdvanceCursor(next) == next + 1

\* Receiver::recv_ref for a cursor `next`: what recv returns and where the
\* cursor goes.  "Empty" is recv staying pending.
LaggedTo == tail.pos - BufLen
\* (mutant of Missed: every unread frame counted as missed)
MissedAllUnread(next) == tail.pos - next
Missed(next) == LaggedTo - next
RecvRef(next) ==
    LET slot == buffer[SlotIdx(next)]
    IN  IF slot.pos = next
        THEN [kind |-> "Ok", val |-> slot.val, n |-> 0,
              next |-> AdvanceCursor(next)]
        ELSE IF slot.pos + BufLen = next
        THEN IF tail.closed
             THEN [kind |-> "Closed", val |-> None, n |-> 0, next |-> next]
             ELSE [kind |-> "Empty", val |-> None, n |-> 0, next |-> next]
        ELSE IF Missed(next) = 0
        THEN [kind |-> "Ok", val |-> slot.val, n |-> 0,
              next |-> AdvanceCursor(next)]
        ELSE [kind |-> "Lagged", val |-> None, n |-> Missed(next),
              next |-> LaggedTo]

\* (mutant of TailAfterReceiverDrop: the drop of one Receiver clears the
\* receiver count)
TailAfterDropClearsCount == [tail EXCEPT !.rx_cnt = 0]
\* Receiver::drop: one receiver fewer.  (Its drain of the unread slots only
\* releases values early; the model keeps a slot's value until overwritten.)
TailAfterReceiverDrop == [tail EXCEPT !.rx_cnt = @ - 1]

\* Sender::drop by `owner`: the channel closes when the last Sender handle
\* goes (num_tx reaches 0).
SendersAfterDrop(owner) == senders \ {owner}
ClosedAfterSenderDrop(owner) ==
    tail.closed \/ Cardinality(SendersAfterDrop(owner)) = 0

\* -------------------------------------------------------------- Init
\* main up to warp::serve: the channel, then frame_tx itself (kept by main
\* for as long as the server runs), its clone moved into the capture thread
\* and its clone moved into the /stream route closure.
SenderHandles == {"main", "capture thread", "stream_route closure"}

IdleRx == [pc |-> "idle", next |-> 0, cur |-> None]
NoResult == [kind |-> "None", n |-> 0, id |-> 0, len |-> 0]

\* No frame has come from the device yet.
NoCapture == [len_ok |-> FALSE, encoded |-> FALSE]
InitWith(capacity) ==
    /\ tail = NewTail
    /\ buffer = NewBuffer(capacity)
    /\ senders = SenderHandles
    /\ capture = "running"
    /\ rx = [c \in Conns |-> IdleRx]
    /\ lastIter = "none"
    /\ published = <<>>
    /\ got = [c \in Conns |-> NoResult]
    /\ lastId = [c \in Conns |-> 0]
    /\ floor = [c \in Conns |-> 0]
    /\ droppedAt = [c \in Conns |-> "never"]
    /\ out = [c \in Conns |-> <<>>]
    /\ accounted = [c \in Conns |-> 0]
    /\ lastCapture = NoCapture

\* The pipeline specifications leave the pixel reordering aside: the JPEG of
\* a frame is opaque to the channel and the streams.
NoPixels == frame = <<>> /\ rgba_frame = <<>> /\ passes = 0
Init == InitWith(Capacity) /\ NoPixels

\* --------------------------------------------------- the capture thread
\* One action per way an iteration of the capture loop can go.  Each is the
\* whole iteration: capturer.frame(), the checks, the encode and the send.

\* frame.len() != (w * h * 4)
ExpectedLen == Width * Height * BytesPerPixel
\* ImageBuffer::from_raw(w, h, buf) is Some when buf holds at least w*h*4 bytes.
FromRawIsSome(len) == len >= ExpectedLen
\* The lengths of the buffers the device delivers: the display's, or a
\* shorter or longer one.
FrameLens == {ExpectedLen - 1, ExpectedLen, ExpectedLen + 1}
\* (mutant of OkArm: no length check before the conversion)
OkArmWithoutSizeCheck(len, enc_ok) ==
    IF ~FromRawIsSome(len) THEN "no_image"
    ELSE IF ~enc_ok THEN "encode_err"
    ELSE "send"
\* Where the Ok(frame) arm takes a frame of len bytes whose encode_image
\* succeeds or not: to the size check's continue, past an `if let Some` that
\* does not match, to the encode error's continue, or to frame_tx.send.
OkArm(len, enc_ok) ==
    IF len # ExpectedLen THEN "size_mismatch"
    ELSE IF ~FromRawIsSome(len) THEN "no_image"
    ELSE IF ~enc_ok THEN "encode_err"
    ELSE "send"
\* (mutant of CaptureAfter: an encode error ends the loop like a capture error)
CaptureAfterBreaksOnEncodeError(outcome) ==
    IF outcome \in {"fatal", "encode_err"} THEN "exited" ELSE "running"
\* The loop after an iteration: `break` on a capture error other than
\* WouldBlock, `continue` or the end of the loop body otherwise.
CaptureAfter(outcome) == IF outcome = "fatal" THEN "exited" ELSE "running"

\* The frames the capture device delivers within the model's bound.
MaxPublished == BufLen + MaxOverrun

\* (mutant of SendReady: send waits while a receiver's backlog is full, as a
\* bounded queue would)
SendReadyWhenRoom ==
    \A c \in Conns : rx[c].pc = "idle" \/ tail.pos - rx[c].next < BufLen
\* frame_tx.send is a plain function call: it returns without waiting for
\* any receiver.
SendReady == TRUE

\* (mutant of CaptureAfterSend: a send error ends the loop)
CaptureStopsOnSendError(res) == IF res.ok THEN "running" ELSE "exited"
\* let _ = frame_tx.send(jpeg_data): the result is discarded; the loop goes on.
CaptureAfterSend(res) == "running"
IterAfterSend(res) == IF res.ok THEN "send_ok" ELSE "send_err"

connHist == <<got, lastId, floor, droppedAt, out, accounted>>

\* Err(e) with e.kind() == WouldBlock: sleep 16 ms, then poll again.  No
\* frame came from the device, and nothing of the program's state changes.
CaptureWouldBlock ==
    /\ capture = "running"
    /\ capture' = CaptureAfter("would_block")
    /\ UNCHANGED <<pixelVars, tail, buffer, senders, rx, lastIter, published,
                   connHist, lastCapture>>

\* Ok(frame) of the wrong length: "Unexpected frame size.", continue.
CaptureSizeMismatch ==
    /\ capture = "running"
    /\ \E len \in FrameLens, enc_ok \in BOOLEAN :
          /\ OkArm(len, enc_ok) = "size_mismatch"
          /\ lastIter' = "size_mismatch"
          /\ lastCapture' = [len_ok |-> len = ExpectedLen, encoded |-> FALSE]
    /\ capture' = CaptureAfter("size_mismatch")
    /\ UNCHANGED <<pixelVars, tail, buffer, senders, rx, published, connHist>>

\* Ok(frame) of the right length whose encode_image fails: continue.
CaptureEncodeError ==
    /\ capture = "running"
    /\ \E len \in FrameLens, enc_ok \in BOOLEAN :
          /\ OkArm(len, enc_ok) = "encode_err"
          /\ lastIter' = "encode_err"
          /\ lastCapture' = [len_ok |-> len = ExpectedLen, encoded |-> enc_ok]
    /\ capture' = CaptureAfter("encode_err")
    /\ UNCHANGED <<pixelVars, tail, buffer, senders, rx, published, connHist>>

\* Ok(frame) of the right length, encoded, handed to frame_tx.send.
CapturePublish ==
    /\ capture = "running"
    /\ tail.pos < MaxPublished
    /\ \E len \in FrameLens, enc_ok \in BOOLEAN :
          /\ OkArm(len, enc_ok) = "send"
          /\ lastCapture' = [len_ok |-> len = ExpectedLen, encoded |-> enc_ok]
    /\ SendReady
    /\ LET jpeg_data == JpegData(Len(published) + 1)
           res == SendResult
       IN  /\ tail' = TailAfterSend
           /\ buffer' = BufferAfterSend(jpeg_data)
           /\ published' = IF res.ok THEN Append(published, jpeg_data)
                                     ELSE published
           /\ capture' = CaptureAfterSend(res)
           /\ lastIter' = IterAfterSend(res)
    /\ UNCHANGED <<pixelVars, senders, rx, connHist>>

\* Any other Err(e): "Error capturing frame", break.  The thread's closure
\* returns and drops what it owns, its Sender clone among it.
CaptureFatal ==
    /\ capture = "running"
    /\ capture' = CaptureAfter("fatal")
    /\ lastIter' = "fatal"
    /\ lastCapture' = NoCapture
    /\ senders' = SendersAfterDrop("capture thread")
    /\ tail' = [tail EXCEPT !.closed = ClosedAfterSenderDrop("capture thread")]
    /\ UNCHANGED <<pixelVars, buffer, rx, published, connHist>>

\* ------------------------------------------------- GET /stream handlers
\* format!("{}", n) for a usize: its decimal digits, most significant first.
DigitChars == <<"0", "1", "2", "3", "4", "5", "6", "7", "8", "9">>
RECURSIVE Decimal(_)
Decimal(n) ==
    IF n < 10 THEN <<DigitChars[n + 1]>>
    ELSE Append(Decimal(n \div 10), DigitChars[(n % 10) + 1])

\* The header text format! builds, as its pieces in order; the digits of
\* jpeg_data.len() stand between "Content-Length: " and the line's CRLF.
HeaderText(n) ==
    <<"--frame", "\r\n", "Content-Type: image/jpeg", "\r\n", "Content-Length: ">>
        \o Decimal(n) \o <<"\r\n", "\r\n">>

\* (mutant of HeaderChunk: the announced length counts the trailing CRLF too)
HeaderChunkCountsTrailer(jpeg_data) ==
    [chunk |-> "header", len |-> 0, id |-> 0,
     text |-> HeaderText(jpeg_data.len + 2)]
\* The multipart record of one frame, as the three chunks the stream yields:
\* the header text, the jpeg_data bytes (len of them, the bytes of frame id),
\* and the trailing CRLF.
HeaderChunk(jpeg_data) ==
    [chunk |-> "header", len |-> 0, id |-> 0, text |-> HeaderText(jpeg_data.len)]
BodyChunk(jpeg_data) ==
    [chunk |-> "body", len |-> jpeg_data.len, id |-> jpeg_data.id, text |-> <<>>]
TrailerChunk == [chunk |-> "crlf", len |-> 0, id |-> 0, text |-> <<"\r\n">>]

\* The route closure: frame_tx.subscribe(), then the response whose body is
\* the stream; the stream's first poll calls rx.recv().
\* (mutant of Subscribe: the handler also sends a frame of its own to the
\* channel, a placeholder picture for the new viewer)
SubscribeSendsPlaceholder(c) ==
    /\ rx[c].pc = "idle"
    /\ rx' = [rx EXCEPT ![c] = [pc |-> "recv", next |-> SubscribeNext, cur |-> None]]
    /\ tail' = [tail EXCEPT !.rx_cnt = @ + 1, !.pos = @ + 1]
    /\ buffer' = [buffer EXCEPT ![SendSlot] = [pos |-> tail.pos, val |-> Some(JpegData(1))]]
    /\ published' = Append(published, JpegData(1))
    /\ got' = [got EXCEPT ![c] = NoResult]
    /\ lastId' = [lastId EXCEPT ![c] = 0]
    /\ floor' = [floor EXCEPT ![c] = Len(published)]
    /\ accounted' = [accounted EXCEPT ![c] = Len(published)]
    /\ droppedAt' = [droppedAt EXCEPT ![c] = "never"]
    /\ out' = [out EXCEPT ![c] = <<>>]
    /\ UNCHANGED <<pixelVars, lastCapture, senders, capture, lastIter>>
Subscribe(c) ==
    /\ rx[c].pc = "idle"
    /\ rx' = [rx EXCEPT ![c] = [pc |-> "recv", next |-> SubscribeNext, cur |-> None]]
    /\ tail' = [tail EXCEPT !.rx_cnt = @ + 1]
    /\ got' = [got EXCEPT ![c] = NoResult]
    /\ lastId' = [lastId EXCEPT ![c] = 0]
    /\ floor' = [floor EXCEPT ![c] = Len(published)]
    /\ accounted' = [accounted EXCEPT ![c] = Len(published)]
    /\ droppedAt' = [droppedAt EXCEPT ![c] = "never"]
    /\ out' = [out EXCEPT ![c] = <<>>]
    /\ UNCHANGED <<pixelVars, lastCapture, buffer, senders, capture, lastIter, published>>

\* match rx.recv().await: where the stream goes on each result.
PcOnOk == "header"
\* (mutant of PcOnLagged: lag ends the stream)
PcOnLaggedBreaks == "ended"
PcOnLagged == "recv"
PcOnClosed == "ended"
StreamOnRecv(r) ==
    CASE r.kind = "Ok"     -> [pc |-> PcOnOk, next |-> r.next, cur |-> r.val]
      [] r.kind = "Lagged" -> [pc |-> PcOnLagged, next |-> r.next, cur |-> None]
      [] r.kind = "Closed" -> [pc |-> PcOnClosed, next |-> r.next, cur |-> None]

\* What a recv result adds to the connection's history.
Result(r) ==
    [kind |-> r.kind, n |-> r.n,
     id |-> IF r.kind = "Ok" THEN r.val[1].id ELSE 0,
     len |-> IF r.kind = "Ok" THEN r.val[1].len ELSE 0]

\* rx.recv().await completes (it stays pending while the channel is empty
\* for this cursor and not closed).
Recv(c) ==
    /\ rx[c].pc = "recv"
    /\ LET r == RecvRef(rx[c].next)
       IN  /\ r.kind # "Empty"
           /\ rx' = [rx EXCEPT ![c] = StreamOnRecv(r)]
           /\ got' = [got EXCEPT ![c] = Result(r)]
           /\ lastId' = [lastId EXCEPT ![c] =
                            IF r.kind = "Ok" THEN r.val[1].id ELSE @]
           /\ floor' = [floor EXCEPT ![c] =
                            IF r.kind = "Ok" THEN r.val[1].id ELSE @]
           /\ accounted' = [accounted EXCEPT ![c] =
                                CASE r.kind = "Ok" -> @ + 1
                                  [] r.kind = "Lagged" -> @ + r.n
                                  [] OTHER -> @]
    /\ UNCHANGED <<pixelVars, lastCapture, tail, buffer, senders, capture, lastIter, published,
                   droppedAt, out>>

\* The three yields of the Ok arm, one chunk each time the body is polled.
Yield(c) ==
    /\ rx[c].pc \in {"header", "body", "crlf"}
    /\ LET jpeg_data == rx[c].cur[1]
       IN  CASE rx[c].pc = "header" ->
                  /\ out' = [out EXCEPT ![c] = <<HeaderChunk(jpeg_data)>>]
                  /\ rx' = [rx EXCEPT ![c].pc = "body"]
             [] rx[c].pc = "body" ->
                  /\ out' = [out EXCEPT ![c] = Append(@, BodyChunk(jpeg_data))]
                  /\ rx' = [rx EXCEPT ![c].pc = "crlf"]
             [] rx[c].pc = "crlf" ->
                  /\ out' = [out EXCEPT ![c] = Append(@, TrailerChunk)]
                  /\ rx' = [rx EXCEPT ![c] = [@ EXCEPT !.pc = "recv", !.cur = None]]
    /\ UNCHANGED <<pixelVars, lastCapture, accounted, tail, buffer, senders, capture, lastIter, published, got,
                   lastId, floor, droppedAt>>

\* The viewer goes away (or a write to it fails): hyper drops the body, and
\* with it the stream and its Receiver, wherever the stream was suspended.
Disconnect(c) ==
    /\ rx[c].pc # "idle"
    /\ rx' = [rx EXCEPT ![c] = IdleRx]
    /\ tail' = TailAfterReceiverDrop
    /\ got' = [got EXCEPT ![c] = NoResult]
    /\ lastId' = [lastId EXCEPT ![c] = 0]
    /\ floor' = [floor EXCEPT ![c] = 0]
    /\ accounted' = [accounted EXCEPT ![c] = 0]
    /\ droppedAt' = [droppedAt EXCEPT ![c] = rx[c].pc]
    /\ out' = [out EXCEPT ![c] = <<>>]
    /\ UNCHANGED <<pixelVars, lastCapture, buffer, senders, capture, lastIter, published>>

Next ==
    \/ CaptureWouldBlock
    \/ CaptureSizeMismatch
    \/ CaptureEncodeError
    \/ CapturePublish
    \/ CaptureFatal
    \/ \E c \in Conns : Subscribe(c)
    \/ \E c \in Conns : Recv(c)
    \/ \E c \in Conns : Yield(c)
    \/ \E c \in Conns : Disconnect(c)

Spec == Init /\ [][Next]_vars

\* The same program around a channel of capacity 2, the capacity of the
\* specification's two-subscriber scenario.
InitScenario == InitWith(2) /\ NoPixels
SpecScenario == InitScenario /\ [][Next]_vars

\* The runs in which one viewer at a time watches the stream, scheduled
\* fairly: the runtime polls a stream whose recv can complete or whose yield
\* is pending, for as long as the viewer takes the bytes; the capture device
\* and the viewer's disconnects are under no such obligation.
SoleViewer == {"a"}
NextSoleViewer ==
    \/ CaptureWouldBlock
    \/ CaptureSizeMismatch
    \/ CaptureEncodeError
    \/ CapturePublish
    \/ CaptureFatal
    \/ \E c \in SoleViewer : Subscribe(c)
    \/ \E c \in SoleViewer : Recv(c)
    \/ \E c \in SoleViewer : Yield(c)
    \/ \E c \in SoleViewer : Disconnect(c)
StreamFairness == \A c \in SoleViewer : WF_vars(Recv(c)) /\ WF_vars(Yield(c))
SpecFair == Init /\ [][NextSoleViewer]_vars /\ StreamFairness

\* ------------------------------------------------ the pixel reordering
\* frame.chunks_exact(size): the whole chunks, in order; a remainder shorter
\* than size is left out.
ChunksExact(bytes, size) ==
    [k \in 1 .. (Len(bytes) \div size) |-> SubSeq(bytes, size * (k - 1) + 1, size * k)]
\* (mutant of RgbaOf: the first three channels rotated instead of two swapped)
RgbaOfRotated(chunk) == <<chunk[2], chunk[3], chunk[1], chunk[4]>>
\* &[chunk[2], chunk[1], chunk[0], chunk[3]], with the model's indices from 1.
RgbaOf(chunk) == <<chunk[3], chunk[2], chunk[1], chunk[4]>>
RECURSIVE ExtendFromChunks(_, _)
\* for chunk in chunks { rgba_frame.extend_from_slice(...) }
ExtendFromChunks(acc, chunks) ==
    IF chunks = <<>> THEN acc
    ELSE ExtendFromChunks(acc \o RgbaOf(Head(chunks)), Tail(chunks))
\* The BGRA to RGBA conversion of one captured buffer.
BgraToRgba(bytes) == ExtendFromChunks(<<>>, ChunksExact(bytes, ChunkSize))

Bytes == 0 .. MaxByte
RawFrames == UNION {[1 .. n -> Bytes] : n \in 0 .. MaxFrameLen}
\* A pipeline just constructed and a raw buffer of any content and length.
InitPixels ==
    /\ InitWith(Capacity)
    /\ frame \in RawFrames
    /\ rgba_frame = <<>>
    /\ passes = 0
\* The conversion applied to the raw buffer, then to its own output.
Reorder ==
    /\ passes < MaxPasses
    /\ rgba_frame' = BgraToRgba(IF passes = 0 THEN frame ELSE rgba_frame)
    /\ passes' = passes + 1
    /\ UNCHANGED <<pipelineVars, frame>>
NextPixels == Reorder
SpecPixels == InitPixels /\ [][NextPixels]_vars

\* ------------------------------------------------------------ claims
Connected(c) == rx[c].pc # "idle"
\* Frames published that the connection's cursor has not passed yet.
Unread(c) == tail.pos - rx[c].next
OkResult(f) == [kind |-> "Ok", n |-> 0, id |-> f.id, len |-> f.len]
LaggedResult(k) == [kind |-> "Lagged", n |-> k, id |-> 0, len |-> 0]

\* C1 (as claimed): once the capture loop has ended on a fatal capture error
\* the channel is closed, and a stream that has read everything published
\* gets Closed from recv instead of waiting.
C1_ClosedAfterFatal ==
    capture = "exited" =>
        /\ tail.closed
        /\ \A c \in Conns :
              (rx[c].pc = "recv" /\ Unread(c) = 0) =>
                  RecvRef(rx[c].next).kind = "Closed"

\* C2: a subscriber with at most a ring's length of unread frames gets from
\* each recv the frame right after its cursor in publish order, its cursor
\* moves by exactly one, nothing else moves it, and a published frame it has
\* not read is always there for it; publish order itself never changes.
C2_UnreadIsNext ==
    \A c \in Conns :
        (Connected(c) /\ Unread(c) >= 1 /\ Unread(c) <= BufLen) =>
            /\ RecvRef(rx[c].next).kind = "Ok"
            /\ RecvRef(rx[c].next).val = Some(published[rx[c].next + 1])
C2_RecvStep ==
    /\ \A c \in Conns :
          /\ (Recv(c) /\ Unread(c) <= BufLen) =>
                /\ got'[c] = OkResult(published[rx[c].next + 1])
                /\ rx'[c].cur = Some(published[rx[c].next + 1])
                /\ rx'[c].next = rx[c].next + 1
          /\ (Connected(c) /\ ~Recv(c) /\ ~Disconnect(c)) =>
                /\ rx'[c].next = rx[c].next
                /\ got'[c] = got[c]
    /\ \/ published' = published
       \/ /\ Len(published') = Len(published) + 1
          /\ SubSeq(published', 1, Len(published)) = published
\* C2: a never-lagging subscriber is given exactly the frames published after
\* it subscribed, in publish order, each once (state part and step part).
C2_InOrderDelivery == []C2_UnreadIsNext /\ [][C2_RecvStep]_vars
\* C2 witness: both subscribers are mid-stream at different cursors, one of
\* them with a full ring of unread frames and still not lagging.
C2_Witness ==
    /\ got["a"].kind = "Ok" /\ got["a"].id = 3
    /\ got["b"].kind = "Ok" /\ got["b"].id = 2
    /\ Unread("b") = BufLen
    /\ Unread("a") = BufLen - 1

\* C3: while the capture loop runs, handing a frame to send is always
\* possible and leaves the loop running, however far behind any subscriber
\* is; a subscriber more than a ring's length behind has lost the frame at
\* its cursor and is told so by recv.
C3_PublishNeverBlocks ==
    /\ (capture = "running" /\ tail.pos < MaxPublished) =>
          ENABLED (CapturePublish /\ capture' = "running")
    /\ \A c \in Conns :
          (Connected(c) /\ Unread(c) > BufLen) =>
              /\ \A i \in DOMAIN buffer : buffer[i].pos # rx[c].next
              /\ RecvRef(rx[c].next).kind = "Lagged"
\* C3 witness: a frame has just been published past a subscriber that never
\* read and is now more than a ring's length behind; the loop still runs.
C3_Witness ==
    /\ capture = "running"
    /\ lastIter = "send_ok"
    /\ \E c \in Conns :
          /\ Connected(c) /\ got[c].kind = "None"
          /\ Unread(c) = BufLen + 1

\* C4: a recv by a subscriber with more than a ring's length of unread
\* frames returns Lagged(k), k the number of unread frames that are no longer
\* in the ring; the cursor skips exactly those, and the next result is the
\* frame published right after them.
C4_RecvStep ==
    \A c \in Conns :
        /\ (Recv(c) /\ Unread(c) > BufLen) =>
              LET k == Unread(c) - BufLen
                  gone == rx[c].next .. (rx[c].next + k - 1)
              IN  /\ got'[c] = LaggedResult(k)
                  /\ \A p \in gone : \A i \in DOMAIN buffer : buffer[i].pos # p
                  /\ \A p \in (rx[c].next + k) .. (tail.pos - 1) :
                        \E i \in DOMAIN buffer : buffer[i].pos = p
                  /\ rx'[c].next = rx[c].next + k
                  /\ (RecvRef(rx[c].next))' =
                        [kind |-> "Ok",
                         val |-> Some(published[rx[c].next + k + 1]),
                         n |-> 0, next |-> rx[c].next + k + 1]
        /\ (Recv(c) /\ got[c].kind = "Lagged" /\ Unread(c) <= BufLen) =>
              got'[c] = OkResult(published[rx[c].next + 1])
\* C4: Lagged(k) counts exactly the missed frames, and delivery resumes with
\* the frame published right after them, on every step.
C4_LaggedCountsMissed == [][C4_RecvStep]_vars
\* C4 witness: a subscriber was told Lagged(2) and its next recv will return
\* the third frame published since it stopped reading.
C4_Witness ==
    \E c \in Conns :
        /\ got[c] = LaggedResult(2)
        /\ rx[c].next = 2
        /\ RecvRef(rx[c].next).val = Some(JpegData(3))

\* C5: the two-subscriber scenario on a channel of capacity 2.
\* Both subscribe before the first publish; the frames published are of
\* 100, 200 and 150 bytes.
ScenarioSizes == <<100, 200, 150>>
ScenarioSoFar ==
    /\ BufLen = 2
    /\ \A c \in Conns : Connected(c)
    /\ Len(published) <= Len(ScenarioSizes)
    /\ \A i \in 1 .. Len(published) : published[i].len = ScenarioSizes[i]
\* The subscriber that reads after each publish: one unread frame at each of
\* its recvs, which returns that frame.
C5_PromptStep(c) ==
    (ScenarioSoFar /\ Recv(c) /\ Unread(c) = 1) =>
        /\ got'[c].kind = "Ok"
        /\ got'[c].len = ScenarioSizes[Len(published)]
\* The subscriber whose first recv comes after the third publish, the other
\* one having been given all three frames.
C5_AllPublished(c) ==
    /\ ScenarioSoFar
    /\ Len(published) = 3
    /\ \E d \in Conns \ {c} : lastId[d] = 3
C5_DelayedFirst(c) ==
    (C5_AllPublished(c) /\ Recv(c) /\ got[c].kind = "None" /\ rx[c].next = 0) =>
        got'[c] = LaggedResult(1)
C5_DelayedSecond(c, size) ==
    (C5_AllPublished(c) /\ Recv(c) /\ got[c] = LaggedResult(1) /\ lastId[c] = 0) =>
        (got'[c].kind = "Ok" /\ got'[c].len = size)
C5_DelayedThird(c) ==
    (C5_AllPublished(c) /\ Recv(c) /\ got[c].kind = "Ok" /\ got[c].len = 200
        /\ out[c] = <<>>) =>
        (got'[c].kind = "Ok" /\ got'[c].len = 150)
C6_RecvStep ==
    \A c \in Conns :
        Recv(c) =>
            /\ rx'[c].next > rx[c].next
            /\ got'[c].kind = "Ok" =>
                  /\ got'[c].id > lastId[c]
                  /\ got'[c].id <= Len(published)
                  /\ rx'[c].cur = Some(published[got'[c].id])
                  /\ got'[c].id = rx'[c].next
C7_Enabled ==
    (capture = "running" /\ tail.rx_cnt = 0 /\ tail.pos < MaxPublished) =>
        ENABLED CapturePublish
C7_PublishStep ==
    (CapturePublish /\ tail.rx_cnt = 0) =>
        /\ capture' = "running"
        /\ lastIter' = "send_err"
        /\ tail' = tail /\ ~tail'.closed
        /\ buffer' = buffer
        /\ senders' = senders
        /\ published' = published
\* C7: publishing with no subscriber never blocks, never ends the loop and
\* never closes the channel (state part and step part).
C7_NoSubscriberPublish == []C7_Enabled /\ [][C7_PublishStep]_vars
\* C7 witness: send has just returned an error for want of a receiver, and
\* the loop is running.
C7_Witness ==
    /\ lastIter = "send_err"
    /\ capture = "running"
    /\ tail.rx_cnt = 0
    /\ ~tail.closed

\* C8: a new subscription finds nothing to read among the frames published
\* so far, every frame it is later given has a publish index above the
\* number of frames published when it subscribed, and a frame sent while
\* there is no subscriber is not kept in the ring.
C8_Step ==
    /\ \A c \in Conns :
          /\ Subscribe(c) =>
                /\ rx'[c].next = Len(published)
                /\ floor'[c] = Len(published)
                /\ (RecvRef(rx[c].next))'.kind \in {"Empty", "Closed"}
          /\ (Recv(c) /\ got'[c].kind = "Ok") =>
                /\ got'[c].id > floor[c]
                /\ floor'[c] >= floor[c]
    /\ (CapturePublish /\ tail.rx_cnt = 0) => buffer' = buffer
\* C8: no frame published before a subscription is ever given to it, on
\* every step.
C8_NoBacklogReplay == [][C8_Step]_vars
\* C8 witness: a subscription made when three frames had been published, all
\* still in the ring for the other subscriber, has been given its first
\* frame, the fourth.
C8_Witness ==
    \E c, d \in Conns :
        /\ c # d
        /\ Connected(d) /\ rx[d].next = 0
        /\ got[c].kind = "Ok" /\ got[c].id = 4
        /\ out[c] = <<>> /\ rx[c].pc = "header"
        /\ tail.pos = 4

\* C9: when a connection is dropped, wherever its stream stood, only its own
\* Receiver goes: the capture thread, the Sender handles, the ring, the tail
\* position and the publish order are unchanged, send is still accepted
\* exactly when another subscriber is left, and every other connection's
\* stream, cursor, history and next recv result are what they were.
C9_Step ==
    \A c \in Conns :
        Disconnect(c) =>
            /\ rx'[c].pc = "idle"
            /\ capture' = capture
            /\ senders' = senders
            /\ buffer' = buffer
            /\ published' = published
            /\ tail'.pos = tail.pos
            /\ tail'.closed = tail.closed
            /\ tail'.rx_cnt = Cardinality({d \in Conns \ {c} : Connected(d)})
            /\ \A d \in Conns \ {c} :
                  /\ rx'[d] = rx[d]
                  /\ got'[d] = got[d]
                  /\ out'[d] = out[d]
                  /\ (RecvRef(rx[d].next))' = RecvRef(rx[d].next)
\* C9: a dropped connection affects neither the producer nor any other
\* subscriber, on every step.
C9_DisconnectIsolated == [][C9_Step]_vars
\* C9 witness: one connection was dropped between the chunks of a record
\* while the other is connected, has been given a frame and has more to read.
C9_Witness ==
    \E c, d \in Conns :
        /\ c # d
        /\ droppedAt[c] \in {"body", "crlf"} /\ rx[c].pc = "idle"
        /\ Connected(d) /\ got[d].kind = "Ok" /\ Unread(d) > 0
        /\ capture = "running"

\* C10: a Lagged result yields nothing and leaves the stream at recv; the
\* stream ends only on a recv that returns Closed, and a connection goes only
\* by being dropped; an ended stream neither receives nor yields again.
C10_Step ==
    \A c \in Conns :
        /\ (Recv(c) /\ got'[c].kind = "Lagged") =>
              /\ out'[c] = out[c]
              /\ rx'[c].pc = "recv"
              /\ rx'[c].cur = None
        /\ (rx[c].pc # "ended" /\ rx'[c].pc = "ended") =>
              (Recv(c) /\ got'[c].kind = "Closed" /\ out'[c] = out[c])
        /\ (Connected(c) /\ rx'[c].pc = "idle") => Disconnect(c)
        /\ rx[c].pc = "ended" => (~Recv(c) /\ ~Yield(c))
\* C10: Lagged never ends a stream nor writes to it; only Closed or the drop
\* of the connection ends it, on every step.
C10_LagDoesNotEndStream == [][C10_Step]_vars
\* C10 witness: a stream that wrote the record of the first frame and was
\* then told Lagged(1) is at recv again, with that record as it was.
C10_Witness ==
    \E c \in Conns :
        /\ got[c] = LaggedResult(1)
        /\ rx[c].pc = "recv"
        /\ rx[c].next = 2
        /\ Len(out[c]) = 3 /\ out[c][2].id = 1

\* C11: reading a record back.  The digits between "Content-Length: " and
\* the next CRLF of a header text, and the number they spell.
DigitValue(d) == CHOOSE v \in 0 .. 9 : DigitChars[v + 1] = d
RECURSIVE ParseDecimal(_)
ParseDecimal(ds) ==
    IF Len(ds) = 0 THEN 0
    ELSE 10 * ParseDecimal(SubSeq(ds, 1, Len(ds) - 1)) + DigitValue(ds[Len(ds)])
ContentLengthDigits(text) ==
    LET at == CHOOSE i \in 1 .. Len(text) : text[i] = "Content-Length: "
        end == CHOOSE j \in (at + 1) .. Len(text) :
                  /\ text[j] = "\r\n"
                  /\ \A k \in (at + 1) .. (j - 1) : text[k] # "\r\n"
    IN  SubSeq(text, at + 1, end - 1)
\* A header text: boundary line, Content-Type line, Content-Length line,
\* blank line.
HeaderWellFormed(text) ==
    /\ Len(text) >= 8
    /\ SubSeq(text, 1, 5) =
          <<"--frame", "\r\n", "Content-Type: image/jpeg", "\r\n", "Content-Length: ">>
    /\ SubSeq(text, Len(text) - 1, Len(text)) = <<"\r\n", "\r\n">>
    /\ \A k \in 6 .. (Len(text) - 2) : \E v \in 0 .. 9 : DigitChars[v + 1] = text[k]
\* The chunks written so far for the connection's latest frame are the start
\* of that frame's record: header, then the frame's bytes, as many as the
\* header announces, then CRLF.
RecordPrefixOf(chunks, f) ==
    /\ Len(chunks) <= 3
    /\ Len(chunks) >= 1 =>
          /\ chunks[1].chunk = "header"
          /\ HeaderWellFormed(chunks[1].text)
          /\ ParseDecimal(ContentLengthDigits(chunks[1].text)) = f.len
    /\ Len(chunks) >= 2 =>
          /\ chunks[2].chunk = "body"
          /\ chunks[2].id = f.id
          /\ chunks[2].len = f.len
          /\ chunks[2].len = ParseDecimal(ContentLengthDigits(chunks[1].text))
    /\ Len(chunks) >= 3 =>
          /\ chunks[3].chunk = "crlf"
          /\ chunks[3].text = <<"\r\n">>
\* In every state: a stream between two recvs has written nothing yet or one
\* whole record, that of the frame it was given last; a stream inside the Ok
\* arm holds the frame its latest recv returned and has written the chunks
\* before its position, and no others.
C11_State ==
    \A c \in Conns :
        Connected(c) =>
            /\ rx[c].pc \in {"header", "body", "crlf"} =>
                  /\ got[c].kind = "Ok"
                  /\ rx[c].cur = Some(published[got[c].id])
            /\ rx[c].pc = "body" =>
                  (Len(out[c]) = 1 /\ RecordPrefixOf(out[c], rx[c].cur[1]))
            /\ rx[c].pc = "crlf" =>
                  (Len(out[c]) = 2 /\ RecordPrefixOf(out[c], rx[c].cur[1]))
            /\ (rx[c].pc = "recv" /\ lastId[c] > 0) =>
                  (Len(out[c]) = 3 /\ RecordPrefixOf(out[c], published[lastId[c]]))
            /\ (rx[c].pc = "recv" /\ lastId[c] = 0) => out[c] = <<>>
\* On every step: a frame returned by recv starts the Ok arm without writing;
\* each yield writes the one next chunk of that frame's record; the next recv
\* comes only after the third; nothing else writes to the connection.
C11_Step ==
    \A c \in Conns :
        /\ (got'[c].kind = "Ok" /\ rx'[c] # rx[c] /\ Recv(c)) =>
              /\ rx'[c].pc = "header"
              /\ out'[c] = out[c]
        /\ (rx'[c] # rx[c] /\ Yield(c)) =>
              /\ rx'[c].cur = IF rx[c].pc = "crlf" THEN None ELSE rx[c].cur
              /\ got'[c] = got[c]
              /\ Len(out'[c]) = (IF rx[c].pc = "header" THEN 0 ELSE Len(out[c])) + 1
              /\ RecordPrefixOf(out'[c], rx[c].cur[1])
              /\ rx[c].pc # "header" =>
                    SubSeq(out'[c], 1, Len(out[c])) = out[c]
              /\ rx'[c].pc = CASE rx[c].pc = "header" -> "body"
                               [] rx[c].pc = "body" -> "crlf"
                               [] rx[c].pc = "crlf" -> "recv"
        /\ (out'[c] # out[c]) => (Yield(c) \/ Subscribe(c) \/ Disconnect(c))
\* C11: each delivered frame of length N is written as exactly one record --
\* header announcing N, the N frame bytes, CRLF -- and the records follow the
\* order of delivery.
C11_OneRecordPerFrame == []C11_State /\ [][C11_Step]_vars
\* C11 witness: a connection has written the whole record of the 200-byte
\* second frame, after that of the first, and is back at recv.
C11_Witness ==
    \E c \in Conns :
        /\ rx[c].pc = "recv" /\ lastId[c] = 2
        /\ Len(out[c]) = 3
        /\ ContentLengthDigits(out[c][1].text) = <<"2", "0", "0">>
        /\ out[c][2].len = 200 /\ out[c][2].id = 2
        /\ floor[c] = 2 /\ got[c].kind = "Ok"

\* The buffer with the first and third byte of every 4-byte pixel exchanged.
SwappedPixels(bytes) ==
    [i \in 1 .. Len(bytes) |->
        LET base == 4 * ((i - 1) \div 4)
            k == (i - 1) % 4
        IN  bytes[base + (CASE k = 0 -> 3 [] k = 1 -> 2 [] k = 2 -> 1 [] k = 3 -> 4)]]
\* C12: on a buffer whose length is a multiple of 4 the reordering keeps the
\* length, writes [in[2], in[1], in[0], in[3]] for every pixel, and applied to
\* its own output gives the original buffer back (so it is a bijection on
\* these buffers, being its own inverse).
C12_ReorderIsInvolution ==
    (Len(frame) % 4 = 0 /\ passes >= 1) =>
        /\ Len(rgba_frame) = Len(frame)
        /\ passes % 2 = 1 => rgba_frame = SwappedPixels(frame)
        /\ passes % 2 = 0 => rgba_frame = frame
\* C12 witness: a two-pixel buffer whose pixels the reordering changes has
\* been reordered twice.
C12_Witness ==
    /\ Len(frame) = 8 /\ passes = 2
    /\ frame[1] # frame[3] /\ frame[5] # frame[7]
    /\ rgba_frame = frame

\* In every state: the loop has ended exactly when its latest iteration was
\* the one that got a capture error other than WouldBlock; and once ended it
\* runs no further iteration.
C13_State ==
    /\ capture \in {"running", "exited"}
    /\ (capture = "exited") <=> (lastIter = "fatal")
    /\ capture = "exited" =>
          ~ENABLED (CaptureWouldBlock \/ CaptureSizeMismatch \/ CaptureEncodeError
                        \/ CapturePublish \/ CaptureFatal)
\* On every step: an iteration that finds the device not ready, a frame of
\* the wrong size, an encode failure, or that publishes -- to subscribers or
\* to none -- leaves the loop running; the capture error ends it; nothing
\* else does, and nothing starts it again.
C13_Step ==
    /\ (CaptureSizeMismatch \/ CaptureEncodeError \/ CapturePublish)
          => (capture = "running" /\ capture' = "running")
    /\ (ENABLED CaptureWouldBlock) => capture = "running"
    /\ CaptureFatal => (capture = "running" /\ capture' = "exited")
    /\ (capture' # capture) => CaptureFatal
\* C13: the capture loop ends if and only if the device returns an error
\* other than WouldBlock; no run of not-ready polls, size mismatches, encode
\* failures or publishes without subscribers ends it.
C13_OnlyFatalEndsLoop == []C13_State /\ [][C13_Step]_vars
\* C13 witness: the loop is still running after two frames were published,
\* every subscriber has left and the latest frame failed to encode.
C13_Witness ==
    /\ capture = "running"
    /\ lastIter = "encode_err"
    /\ lastCapture = [len_ok |-> TRUE, encoded |-> FALSE]
    /\ tail.pos = 2 /\ tail.rx_cnt = 0

\* What a step has published, if anything: the channel's position, ring or
\* the list of accepted frames changed.
PublishedSomething ==
    \/ published' # published
    \/ tail'.pos # tail.pos
    \/ buffer' # buffer
\* C14: a frame enters the channel only in an iteration whose captured buffer
\* had w*h*4 bytes and whose encode succeeded, and then exactly one frame;
\* an iteration with a size mismatch or an encode failure publishes nothing
\* and leaves the channel and every subscriber as they were.
C14_PublishOnlyGoodFrames ==
    [][ /\ PublishedSomething =>
              /\ CapturePublish
              /\ lastCapture'.len_ok /\ lastCapture'.encoded
              /\ tail'.pos = tail.pos + 1
              /\ Len(published') = Len(published) + 1
              /\ published'[Len(published')].len > 0
              /\ Cardinality({i \in DOMAIN buffer : buffer'[i] # buffer[i]}) = 1
        /\ (CaptureSizeMismatch \/ CaptureEncodeError) =>
              /\ ~(lastCapture'.len_ok /\ lastCapture'.encoded)
              /\ UNCHANGED <<tail, buffer, published, rx, capture>>
      ]_vars
\* C14 witness: after one frame was published to a subscriber, a frame of
\* the wrong size was dropped: still one frame in the channel.
C14_Witness ==
    /\ lastIter = "size_mismatch"
    /\ lastCapture = [len_ok |-> FALSE, encoded |-> FALSE]
    /\ Len(published) = 1 /\ tail.pos = 1
    /\ \E c \in Conns : Connected(c) /\ Unread(c) = 1

\* A subscription that began when every frame published so far was already
\* out, and that no frame has been delivered to; each subscription created
\* after the loop has ended starts as one, the publishes being over by then.
SubscribedAfterAll(c) ==
    /\ Connected(c)
    /\ floor[c] = Len(published)
    /\ lastId[c] = 0
\* In every state after the loop has ended: a free connection can still
\* subscribe, the capture thread cannot publish, and a subscription that
\* began after the last publish has nothing to receive.
C15_State ==
    capture = "exited" =>
        /\ ~ENABLED CapturePublish
        /\ \A c \in Conns :
              /\ rx[c].pc = "idle" => ENABLED Subscribe(c)
              /\ SubscribedAfterAll(c) =>
                    /\ Unread(c) = 0
                    /\ RecvRef(rx[c].next).kind = "Empty"
                    /\ ~ENABLED Recv(c)
                    /\ out[c] = <<>>
\* On every step after the loop has ended: nothing is published, the loop
\* stays ended, a new subscription starts behind every published frame, and
\* such a subscription stays without a frame.
C15_Step ==
    capture = "exited" =>
        /\ capture' = "exited"
        /\ UNCHANGED <<published, buffer>>
        /\ tail'.pos = tail.pos
        /\ \A c \in Conns :
              /\ Subscribe(c) => (SubscribedAfterAll(c))'
              /\ (SubscribedAfterAll(c) /\ ~Disconnect(c)) => (SubscribedAfterAll(c))'
\* C15: once the capture loop has ended on a capture error, GET /stream still
\* subscribes, but no frame is published any more and a subscription created
\* from then on is never given a frame.
C15_NoFramesAfterExit == []C15_State /\ [][C15_Step]_vars
\* C15 witness: the loop ended after three frames; one viewer, connected
\* throughout, has them all, another subscribed behind them and waits in recv
\* with nothing written.
C15_Witness ==
    /\ capture = "exited" /\ Len(published) = 3
    /\ \E c, d \in Conns :
          /\ SubscribedAfterAll(c) /\ rx[c].pc = "recv" /\ rx[c].next = 3
          /\ lastId[d] = 3 /\ Connected(d)

\* The slots that hold an encoded frame, and the positions of those frames.
Retained == {i \in DOMAIN buffer : buffer[i].val # None}
RetainedPositions == {buffer[i].pos : i \in Retained}
Oldest(positions) == CHOOSE p \in positions : \A q \in positions : p <= q
\* In every state: the ring has the 16 slots it was created with, so at most
\* 16 frames are held, whatever the subscribers do; the frames held are
\* different ones among the latest 16 published.
C16_State ==
    /\ DOMAIN buffer = 0 .. (NextPowerOfTwo(Capacity) - 1)
    /\ Cardinality(Retained) <= Capacity
    /\ Cardinality(RetainedPositions) = Cardinality(Retained)
    /\ \A p \in RetainedPositions :
          /\ p >= 0 /\ p < tail.pos /\ p >= tail.pos - Capacity
    /\ \A i \in Retained : buffer[i].val = Some(published[buffer[i].pos + 1])
\* On every step: a publish into a full ring overwrites the slot of the
\* oldest frame held and no other; a publish into a ring with room fills an
\* empty slot.
C16_Step ==
    (buffer' # buffer) =>
        \E i \in DOMAIN buffer :
            /\ \A j \in DOMAIN buffer \ {i} : buffer'[j] = buffer[j]
            /\ buffer'[i] = [pos |-> tail.pos, val |-> Some(published'[tail.pos + 1])]
            /\ IF Cardinality(Retained) = Capacity
               THEN buffer[i].pos = Oldest(RetainedPositions)
               ELSE buffer[i].val = None
\* C16: the channel never holds more than 16 encoded frames, whatever the
\* number of subscribers, their lag or the number of publishes; when a frame
\* is published into a full ring, the oldest one held is overwritten.
C16_BoundedRing == []C16_State /\ [][C16_Step]_vars
\* C16 witness: 18 frames were published to a subscriber that read none; the
\* ring holds the latest 16 and the slot of frame 1 now holds frame 17.
C16_Witness ==
    /\ tail.pos = Capacity + 2
    /\ Cardinality(Retained) = Capacity
    /\ buffer[0].pos = Capacity /\ buffer[0].val = Some(published[Capacity + 1])
    /\ \E c \in Conns : Connected(c) /\ Unread(c) = Capacity + 2

\* In every state: the frames the channel accepted are one sequence, the
\* n-th being the n-th send's; the ring and every stream hold frames of that
\* sequence at their publish index, so all subscribers see the same order.
C17_State ==
    /\ tail.pos = Len(published)
    /\ \A n \in 1 .. Len(published) : published[n] = JpegData(n)
    /\ \A i \in DOMAIN buffer :
          buffer[i].val # None =>
              /\ buffer[i].pos + 1 \in 1 .. Len(published)
              /\ buffer[i].val = Some(published[buffer[i].pos + 1])
    /\ \A c \in Conns :
          /\ rx[c].cur # None => rx[c].cur = Some(published[rx[c].cur[1].id])
          /\ got[c].kind = "Ok" =>
                /\ got[c].id \in 1 .. Len(published)
                /\ got[c].len = published[got[c].id].len
    /\ \A c, d \in Conns :
          (Len(out[c]) >= 2 /\ Len(out[d]) >= 2 /\ out[c][2].id = out[d][2].id)
              => out[c][2] = out[d][2]
\* On every step: a handler's subscribe, recv, yield or drop leaves the ring,
\* the channel position and the published sequence alone; they change only in
\* the capture thread's send, which appends at the end of the one sequence.
C17_Step ==
    /\ \A c \in Conns :
          (rx'[c] # rx[c] /\ (Subscribe(c) \/ Recv(c) \/ Yield(c) \/ Disconnect(c))) =>
              /\ UNCHANGED <<buffer, published>>
              /\ tail'.pos = tail.pos
    /\ (published' # published \/ tail'.pos # tail.pos \/ buffer' # buffer) =>
          /\ capture = "running"
          /\ lastIter' = "send_ok"
          /\ SubSeq(published', 1, Len(published)) = published
          /\ \A c \in Conns : rx'[c] = rx[c]
\* C17: only the capture thread sends on the channel, the handlers only
\* subscribe and receive; the publishes form one total order, the same for
\* every subscriber.
C17_SinglePublisher == []C17_State /\ [][C17_Step]_vars
\* C17 witness: two viewers have each written the body of frame 2 of the one
\* published sequence while the capture thread has published a third.
C17_Witness ==
    /\ Len(published) = 3 /\ capture = "running"
    /\ \A c \in Conns :
          /\ Len(out[c]) >= 2 /\ out[c][2].id = 2
          /\ got[c] = OkResult(published[2])

\* C18: for every live subscriber, the frames delivered to it, the frames
\* its Lagged(n) results counted, and the frames it has not yet read or been
\* told of add up to the frames published since it subscribed; and each frame
\* delivered is the one right after those accounted for before, so no frame
\* goes missing without a Lagged counting it.
C18_FrameAccounting ==
    \A c \in Conns :
        Connected(c) =>
            /\ accounted[c] + Unread(c) = Len(published)
            /\ Unread(c) >= 0
            /\ got[c].kind = "Ok" => got[c].id = accounted[c]
            /\ got[c].kind = "Lagged" =>
                  (got[c].n > 0 /\ accounted[c] - got[c].n >= lastId[c])
\* C18 witness: of 18 frames published since it subscribed, a subscriber has
\* been told of missed ones by Lagged, was just given frame 3, and has 15
\* unread; another viewer has come and gone meanwhile.
C18_Witness ==
    \E c \in Conns :
        /\ Connected(c) /\ Len(published) = Capacity + 2
        /\ got[c] = OkResult(published[3]) /\ accounted[c] = 3
        /\ Unread(c) = Capacity - 1
        /\ \E d \in Conns : d # c /\ droppedAt[d] = "recv"

\* The publish indices a run of the model reaches.
PublishIndices == 1 .. (NextPowerOfTwo(Capacity) + MaxOverrun)
\* Frame k has been published and stream c, connected, has its cursor before it.
Awaits(c, k) == Connected(c) /\ rx[c].next < k /\ k <= tail.pos
\* Stream c has written the whole record of frame k or of a later one.
EmittedFrom(c, k) == Len(out[c]) = 3 /\ out[c][2].id >= k
\* A stream suspended in recv with nothing unread can complete its recv, with
\* the new frame, right after the next accepted send.
C19_WakeStep ==
    \A c \in Conns :
        (rx[c].pc = "recv" /\ Unread(c) = 0 /\ tail'.pos = tail.pos + 1) =>
            /\ RecvRef(rx[c].next).kind = "Empty"
            /\ (RecvRef(rx[c].next))'.kind = "Ok"
            /\ (RecvRef(rx[c].next))'.val = Some(published'[tail'.pos])
====
